---- MODULE Spec2Model ----
(***************************************************************************)
(* Model of tullkodsgenerator: the code normalisation of tullkod_model.py *)
(* (normalize_code) and the public API built on it (classify_product,      *)
(* add_tullkod_column, explain_classification).                            *)
(*                                                                         *)
(* A Python str is a sequence of characters; a character is a one-element  *)
(* string.  An Optional[str] is a record [some, val].                      *)
(***************************************************************************)
EXTENDS Integers, Sequences, FiniteSets, TLC

VARIABLES
    \* normalize_code applied on its own: the input, the result, the result of
    \* normalising the result, and the position of the caller
    text, result, again, pc,
    \* the public API: position of the call, the call and its arguments, the
    \* DataFrame object, the requests sent to the completion service with their
    \* outcome, and the str returned to the caller
    apc, call, df, log, ret,
    \* the web session of app.py: the credentials read from the environment at
    \* start, st.session_state["logged_in"], the part of the page the last
    \* script run rendered and its notice, the login submissions made so far,
    \* and the functions of tullkod_model called so far
    APP_USERNAME, APP_PASSWORD, logged_in, page, notice, submitted, called

normVars == <<text, result, again, pc>>

apiVars == <<apc, call, df, log, ret>>

appVars == <<APP_USERNAME, APP_PASSWORD, logged_in, page, notice, submitted, called>>

vars == <<text, result, again, pc, apc, call, df, log, ret,
          APP_USERNAME, APP_PASSWORD, logged_in, page, notice, submitted, called>>

(***************************************************************************)
(* Bounds of the model.                                                    *)
(***************************************************************************)
\* longest digit run offered as one piece of an input text
MaxRun == 10
\* number of pieces an input text is concatenated from
MaxPieces == 3
\* number of rows of a table given to add_tullkod_column
MaxRows == 2
\* number of calls of tullkod_model functions followed in one web session
MaxCalls == 3

(***************************************************************************)
(* Characters, as Python's re and str classify them.  \d and str.isdigit   *)
(* are Unicode aware: ARABIC-INDIC DIGIT THREE (U+0663) is a decimal digit *)
(* to both.  \w is letters, decimal digits and the underscore.             *)
(***************************************************************************)
AsciiDigit == {"0", "1", "2", "3", "4", "5", "6", "7", "8", "9"}
ArabicThree == "U+0663"
Letter == {"a", "U", "N", "K", "O", "W", "n", "o", "e"}
Underscore == "_"
Space == " "
Dot == "."

\* the slip \W for \D: letters and the underscore survive the stripping
IsDigitOrWord(c) ==
    c \in AsciiDigit \cup {ArabicThree, Underscore, "a", "U", "N", "K", "O", "W", "n", "o", "e"}

\* re: \d
IsDigit(c) == c \in AsciiDigit \cup {ArabicThree}
\* re: \w
IsWord(c) == IsDigit(c) \/ c \in Letter \/ c = Underscore

\* Optional[str]
None == [some |-> FALSE, val |-> <<>>]
Some(s) == [some |-> TRUE, val |-> s]

\* the sentinel, the Python string "UNKNOWN"
UNKNOWN == <<"U", "N", "K", "N", "O", "W", "N">>

\* the lengths normalize_code accepts directly: for k in (10, 8, 6, 4, 2)
AcceptedLengths == {10, 8, 6, 4, 2}
\* the slip of a looser leniency bound
MaxFallbackLenLoose == 12 + 2
\* the leniency bound of the fallback: len(digits) <= 12
MaxFallbackLen == 12
\* the length of the run the raw text is searched for: \d{10}
RunLen == 10

\* the slip count=1: only the leftmost run of non-digits is removed
RECURSIVE ReSubNonDigitsFirstOnly(_)
ReSubNonDigitsFirstOnly(s) ==
    IF s = <<>> THEN <<>>
    ELSE IF s[1] \in AsciiDigit \cup {ArabicThree}
         THEN <<Head(s)>> \o ReSubNonDigitsFirstOnly(Tail(s))
    ELSE LET rest == {k \in 1..Len(s) : s[k] \in AsciiDigit \cup {ArabicThree}}
         IN IF rest = {} THEN <<>>
            ELSE SubSeq(s, CHOOSE k \in rest : \A j \in rest : k <= j, Len(s))

(***************************************************************************)
(* re.sub(r"\D+", "", s): every maximal run of non-digits is replaced by   *)
(* the empty string, scanning from the left.                               *)
(***************************************************************************)
RECURSIVE ReSubNonDigits(_)
ReSubNonDigits(s) ==
    IF s = <<>> THEN <<>>
    ELSE IF IsDigit(Head(s)) THEN <<Head(s)>> \o ReSubNonDigits(Tail(s))
    ELSE ReSubNonDigits(Tail(s))

\* is position k of s (1-based) a word character; positions outside s are not
IsWordAt(s, k) == k \in 1..Len(s) /\ IsWord(s[k])

\* re: \b at the gap after the first p characters of s
WordBoundary(s, p) == IsWordAt(s, p) # IsWordAt(s, p + 1)

\* does \b\d{10}\b match s starting at position i
MatchesAt(s, i) ==
    /\ i >= 1 /\ i + RunLen - 1 <= Len(s)
    /\ WordBoundary(s, i - 1)
    /\ \A j \in i..(i + RunLen - 1) : IsDigit(s[j])
    /\ WordBoundary(s, i + RunLen - 1)

\* re.search(r"\b\d{10}\b", s): start of the leftmost match, 0 for no match
ReSearchRun(s) ==
    LET starts == {i \in 1..Len(s) : MatchesAt(s, i)}
    IN IF starts = {} THEN 0
       ELSE CHOOSE i \in starts : \A j \in starts : i <= j

\* str.isdigit(): non-empty and every character a digit
StrIsDigit(s) == s # <<>> /\ \A k \in 1..Len(s) : IsDigit(s[k])

\* the slip of dropping the length test of the fallback
normalize_code_noLimit(t) ==
    IF ~t.some \/ t.val = <<>> THEN UNKNOWN
    ELSE LET digits == ReSubNonDigits(t.val)
             m == ReSearchRun(t.val)
         IN IF digits = <<>> THEN UNKNOWN
            ELSE IF Len(digits) \in AcceptedLengths THEN digits
            ELSE IF m # 0 THEN SubSeq(t.val, m, m + RunLen - 1)
            ELSE IF StrIsDigit(digits) THEN digits
                 ELSE UNKNOWN

\* the slip of an off-by-one end of the matched group
normalize_code_matchOffByOne(t) ==
    IF ~t.some \/ t.val = <<>> THEN UNKNOWN
    ELSE LET digits == ReSubNonDigits(t.val)
             m == ReSearchRun(t.val)
         IN IF digits = <<>> THEN UNKNOWN
            ELSE IF Len(digits) \in AcceptedLengths THEN digits
            ELSE IF m # 0
                 THEN SubSeq(t.val, m, IF m + RunLen <= Len(t.val) THEN m + RunLen ELSE Len(t.val))
            ELSE IF StrIsDigit(digits) /\ Len(digits) <= MaxFallbackLen
                 THEN digits
                 ELSE UNKNOWN

\* the slip of returning the raw text where the stripped digits were meant
normalize_code_rawAccepted(t) ==
    IF ~t.some \/ t.val = <<>> THEN UNKNOWN
    ELSE LET digits == ReSubNonDigits(t.val)
             m == ReSearchRun(t.val)
         IN IF digits = <<>> THEN UNKNOWN
            ELSE IF Len(digits) \in AcceptedLengths THEN t.val
            ELSE IF m # 0 THEN SubSeq(t.val, m, m + RunLen - 1)
            ELSE IF StrIsDigit(digits) /\ Len(digits) <= MaxFallbackLen
                 THEN digits
                 ELSE UNKNOWN

(***************************************************************************)
(* normalize_code(text)                                                    *)
(***************************************************************************)
normalize_code(t) ==
    IF ~t.some \/ t.val = <<>> THEN UNKNOWN
    ELSE LET digits == ReSubNonDigits(t.val)
             m == ReSearchRun(t.val)
         IN IF digits = <<>> THEN UNKNOWN
            ELSE IF Len(digits) \in AcceptedLengths THEN digits
            ELSE IF m # 0 THEN SubSeq(t.val, m, m + RunLen - 1)
            ELSE IF StrIsDigit(digits) /\ Len(digits) <= MaxFallbackLen
                 THEN digits
                 ELSE UNKNOWN

(***************************************************************************)
(* Input texts: concatenations of at most MaxPieces pieces, a piece being  *)
(* a run of 1..MaxRun ASCII digits or a single other character.            *)
(***************************************************************************)
DigitSource == <<"3", "0", "0", "4", "9", "0", "9", "0", "9", "9", "1", "2", "5", "7">>

DigitRun(n) == [k \in 1..n |-> DigitSource[((k - 1) % Len(DigitSource)) + 1]]

Pieces ==
    {DigitRun(n) : n \in 1..MaxRun}
        \cup {<<c>> : c \in {"a", Underscore, Space, Dot, ArabicThree}}

RECURSIVE Flatten(_)
Flatten(ps) == IF ps = <<>> THEN <<>> ELSE Head(ps) \o Flatten(Tail(ps))

Texts == {Flatten(ps) : ps \in UNION {[1..n -> Pieces] : n \in 0..MaxPieces}}

Inputs == {None} \cup {Some(s) : s \in Texts}

(***************************************************************************)
(* The completion service and the prompts.  A payload is the user template *)
(* filled in: the sequence of its labels, each followed by the value put   *)
(* in its placeholder.  The service is opaque: it answers a request with   *)
(* any text, or the call raises.                                           *)
(***************************************************************************)
\* json.dumps(taric_data), one opaque token
taric_text == <<"taric_30.json">>

\* prompt, the user message of the classification chain (the label
\* "Produktsammansättning" is written in ASCII)
ClassificationPayload(name, desc, composition) ==
    << [label |-> "JSON:\n", value |-> taric_text],
       [label |-> "\n\nProduktnamn: ", value |-> name],
       [label |-> "\nProduktbeskrivning: ", value |-> desc],
       [label |-> "\nProduktsammansattning / substanser: ", value |-> composition] >>

\* explanation_prompt, the user message of the explanation chain
ExplanationPayload(name, desc, composition, code) ==
    << [label |-> "JSON:\n", value |-> taric_text],
       [label |-> "\n\nVald tullkod: ", value |-> code],
       [label |-> "\n\nProduktnamn: ", value |-> name],
       [label |-> "\nProduktbeskrivning: ", value |-> desc],
       [label |-> "\nProduktsammansattning / substanser: ", value |-> composition] >>

\* x or ""
OrEmpty(x) == IF ~x.some \/ x.val = <<>> THEN <<>> ELSE x.val

\* the request classify_product sends
ClassifyRequest(name, desc, composition) ==
    [chain |-> "classification_chain",
     payload |-> ClassificationPayload(OrEmpty(name), OrEmpty(desc), OrEmpty(composition))]

\* the request explain_classification sends
ExplainRequest(name, desc, composition, tullkod) ==
    [chain |-> "explanation_chain",
     payload |-> ExplanationPayload(OrEmpty(name), OrEmpty(desc), OrEmpty(composition), tullkod)]

\* texts the service answers with
Responses == {DigitRun(RunLen), UNKNOWN, DigitRun(4) \o <<Dot>> \o DigitRun(2)}

\* outcome of one invoke: a response text, or None when the call raised
Outcomes == {Some(r) : r \in Responses} \cup {None}

\* a request with its outcome, as logged
Logged(req, outcome) ==
    [chain |-> req.chain, payload |-> req.payload, response |-> outcome]

(***************************************************************************)
(* Tables.  A cell is a str, float NaN (an empty spreadsheet cell) or None.*)
(***************************************************************************)
NaN == [kind |-> "nan", val |-> <<>>]
PyNone == [kind |-> "none", val |-> <<>>]
Str(s) == [kind |-> "str", val |-> s]

\* str(cell)
py_str(cell) ==
    IF cell.kind = "nan" THEN <<"n", "a", "n">>
    ELSE IF cell.kind = "none" THEN <<"N", "o", "n", "e">>
    ELSE cell.val

\* the default of the parameter output_col
DefaultOutputCol == "Tullkod"

CellValues == {NaN, PyNone, Str(<<"a">>)}

\* a code a table already carries in a column named like the output column
OldCode == Str(DigitRun(4))

ColumnSets == {{"Name", "Desc"}, {"Name", "Desc", DefaultOutputCol}}

RowsOver(cols) ==
    {r \in [cols -> CellValues \cup {OldCode}] :
        \A c \in cols : (r[c] = OldCode) <=> (c = DefaultOutputCol)}

Tables ==
    UNION {{[cols |-> cols, rows |-> rs] :
                rs \in UNION {[1..n -> RowsOver(cols)] : n \in 1..MaxRows}} :
           cols \in ColumnSets}

NoTable == [cols |-> {}, rows |-> <<>>]

\* row.get(col, "")
RowGet(table, row, col) == IF col \in table.cols THEN row[col] ELSE Str(<<>>)

\* the request _classify_row sends for a row
RowRequest(c, table, row) ==
    ClassifyRequest(Some(py_str(RowGet(table, row, c.name_col))),
                    Some(py_str(RowGet(table, row, c.desc_col))),
                    Some(py_str(RowGet(table, row, c.comp_col))))

\* df[output_col] = series
SetColumn(table, col, series) ==
    [cols |-> table.cols \cup {col},
     rows |-> [k \in 1..Len(table.rows) |->
                  [c \in table.cols \cup {col} |->
                      IF c = col THEN Str(series[k]) ELSE table.rows[k][c]]]]

\* the Series df.apply has built from the responses so far
AppliedSeries(lg) == [k \in 1..Len(lg) |-> normalize_code(lg[k].response)]

OptFields == {None, Some(<<>>), Some(<<"a">>)}

NoCall == [fn |-> "none"]

(***************************************************************************)
(* Specification of the pure function: the input is drawn in Init, then    *)
(* normalised, then the result is normalised once more.                    *)
(***************************************************************************)
ApiIdle ==
    /\ apc = "idle"
    /\ call = NoCall
    /\ df = NoTable
    /\ log = <<>>
    /\ ret = <<>>

\* os.getenv: an unset variable is None
Unset == [set |-> FALSE, val |-> ""]
EnvSet(v) == [set |-> TRUE, val |-> v]

\* no web session: nothing configured, nothing rendered
NoSession ==
    /\ APP_USERNAME = Unset
    /\ APP_PASSWORD = Unset
    /\ logged_in = "absent"
    /\ page = "none"
    /\ notice = "none"
    /\ submitted = {}
    /\ called = <<>>

Init ==
    /\ text \in Inputs
    /\ result = <<>>
    /\ again = <<>>
    /\ pc = "start"
    /\ ApiIdle
    /\ NoSession

Normalize ==
    /\ pc = "start"
    /\ result' = normalize_code(text)
    /\ pc' = "normalized"
    /\ UNCHANGED <<text, again>>
    /\ UNCHANGED apiVars
    /\ UNCHANGED appVars

Renormalize ==
    /\ pc = "normalized"
    /\ again' = normalize_code(Some(result))
    /\ pc' = "renormalized"
    /\ UNCHANGED <<text, result>>
    /\ UNCHANGED apiVars
    /\ UNCHANGED appVars

Next == Normalize \/ Renormalize

Spec == Init /\ [][Next]_vars

(***************************************************************************)
(* Specification of the public API: one call of classify_product,          *)
(* explain_classification or add_tullkod_column on the loaded module.      *)
(***************************************************************************)
InitApi ==
    /\ text = None
    /\ result = <<>>
    /\ again = <<>>
    /\ pc = "start"
    /\ ApiIdle
    /\ NoSession

\* classify_product(product_name, product_description, composition)
ClassifyProduct ==
    /\ apc = "idle"
    /\ \E name \in OptFields, desc \in OptFields, comp \in OptFields, o \in Outcomes :
        /\ call' = [fn |-> "classify_product", name |-> name, desc |-> desc, comp |-> comp]
        /\ log' = <<Logged(ClassifyRequest(name, desc, comp), o)>>
        /\ IF o.some
           THEN apc' = "returned" /\ ret' = normalize_code(o)
           ELSE apc' = "raised" /\ ret' = ret
    /\ UNCHANGED df
    /\ UNCHANGED normVars
    /\ UNCHANGED appVars

\* the slip of cleaning the explanation like a code before returning it
ExplainClassificationNormalized ==
    /\ apc = "idle"
    /\ \E name \in OptFields, desc \in OptFields, comp \in OptFields,
          code \in {DigitRun(RunLen), UNKNOWN}, o \in Outcomes :
        /\ call' = [fn |-> "explain_classification", name |-> name, desc |-> desc,
                    comp |-> comp, tullkod |-> code]
        /\ log' = <<Logged(ExplainRequest(name, desc, comp, code), o)>>
        /\ IF o.some
           THEN apc' = "returned" /\ ret' = normalize_code(o)
           ELSE apc' = "raised" /\ ret' = ret
    /\ UNCHANGED df
    /\ UNCHANGED normVars
    /\ UNCHANGED appVars

\* explain_classification(product_name, product_description, composition, tullkod)
ExplainClassification ==
    /\ apc = "idle"
    /\ \E name \in OptFields, desc \in OptFields, comp \in OptFields,
          code \in {DigitRun(RunLen), UNKNOWN}, o \in Outcomes :
        /\ call' = [fn |-> "explain_classification", name |-> name, desc |-> desc,
                    comp |-> comp, tullkod |-> code]
        /\ log' = <<Logged(ExplainRequest(name, desc, comp, code), o)>>
        /\ IF o.some
           THEN apc' = "returned" /\ ret' = o.val
           ELSE apc' = "raised" /\ ret' = ret
    /\ UNCHANGED df
    /\ UNCHANGED normVars
    /\ UNCHANGED appVars

\* add_tullkod_column(df, name_col, desc_col, comp_col, output_col) is entered
AddTullkodColumn ==
    /\ apc = "idle"
    /\ \E table \in Tables, comp_col \in {"Desc", "Comp"} :
        /\ call' = [fn |-> "add_tullkod_column", df |-> table, name_col |-> "Name",
                    desc_col |-> "Desc", comp_col |-> comp_col,
                    output_col |-> DefaultOutputCol]
        /\ df' = table
    /\ apc' = "apply"
    /\ UNCHANGED <<log, ret>>
    /\ UNCHANGED normVars
    /\ UNCHANGED appVars

\* df.apply calls _classify_row on the next row; an exception of the service
\* leaves df.apply and add_tullkod_column, and after the last row the Series
\* is assigned to the output column and df is returned
ApplyRow ==
    /\ apc = "apply"
    /\ Len(log) < Len(df.rows)
    /\ \E o \in Outcomes :
        LET k == Len(log) + 1
            lg == Append(log, Logged(RowRequest(call, df, df.rows[k]), o))
        IN /\ log' = lg
           /\ IF ~o.some
              THEN apc' = "raised" /\ df' = df
              ELSE IF k = Len(df.rows)
                   THEN /\ apc' = "returned"
                        /\ df' = SetColumn(df, call.output_col, AppliedSeries(lg))
                   ELSE apc' = "apply" /\ df' = df
    /\ UNCHANGED <<call, ret>>
    /\ UNCHANGED normVars
    /\ UNCHANGED appVars

NextApi == ClassifyProduct \/ ExplainClassification \/ AddTullkodColumn \/ ApplyRow

SpecApi == InitApi /\ [][NextApi]_vars

(***************************************************************************)
(* Specification of the web session of app.py.  Every action is one run of *)
(* the script, started by an interaction of the user; st.text_input gives  *)
(* a str, never None.  "absent" is a session state without "logged_in".    *)
(***************************************************************************)
UsernameSettings == {Unset, EnvSet(""), EnvSet("admin")}
PasswordSettings == {Unset, EnvSet(""), EnvSet("pw")}

EnteredUsers == {"", "admin", "eve"}
EnteredPasswords == {"", "pw"}

InitApp ==
    /\ text = None
    /\ result = <<>>
    /\ again = <<>>
    /\ pc = "start"
    /\ ApiIdle
    /\ APP_USERNAME \in UsernameSettings
    /\ APP_PASSWORD \in PasswordSettings
    /\ logged_in = "absent"
    /\ page = "none"
    /\ notice = "none"
    /\ submitted = {}
    /\ called = <<>>

\* entered == setting, of a str and an Optional[str]
PyEq(entered, setting) == setting.set /\ setting.val = entered

\* the slip of "or" for "and" in the test of the credentials
CredentialsOkEither(user, pwd) ==
    PyEq(user, APP_USERNAME) \/ PyEq(pwd, APP_PASSWORD)

\* user == APP_USERNAME and pwd == APP_PASSWORD
CredentialsOk(user, pwd) ==
    PyEq(user, APP_USERNAME) /\ PyEq(pwd, APP_PASSWORD)

\* a run without the "Log in" button pressed while not logged in: the login
\* form is rendered and the script stops
LoginPage ==
    /\ logged_in \in {"absent", "false"}
    /\ logged_in' = "false"
    /\ page' = "login"
    /\ notice' = "none"
    /\ UNCHANGED <<APP_USERNAME, APP_PASSWORD, submitted, called>>
    /\ UNCHANGED normVars
    /\ UNCHANGED apiVars

\* a run with the "Log in" button pressed: on matching credentials
\* logged_in is set and st.rerun() renders the main content with no button
\* pressed; otherwise the error is shown and the script stops
LoginSubmit ==
    /\ logged_in = "false"
    /\ page = "login"
    /\ \E user \in EnteredUsers, pwd \in EnteredPasswords :
        /\ submitted' = submitted \cup {[user |-> user, pwd |-> pwd]}
        /\ IF CredentialsOk(user, pwd)
           THEN logged_in' = "true" /\ page' = "main" /\ notice' = "none"
           ELSE logged_in' = "false" /\ page' = "login" /\ notice' = "Wrong username."
    /\ UNCHANGED <<APP_USERNAME, APP_PASSWORD, called>>
    /\ UNCHANGED normVars
    /\ UNCHANGED apiVars

\* a run of the main content with no button pressed
MainPage ==
    /\ logged_in = "true"
    /\ page' = "main"
    /\ notice' = "none"
    /\ UNCHANGED <<APP_USERNAME, APP_PASSWORD, logged_in, submitted, called>>
    /\ UNCHANGED normVars
    /\ UNCHANGED apiVars

\* tab_single, "Generate code" pressed: with all fields empty a warning,
\* otherwise classify_product and then explain_classification; an exception
\* of either ends the run
GenerateCode ==
    /\ logged_in = "true"
    /\ page = "main"
    /\ Len(called) + 2 <= MaxCalls
    /\ \E filled \in BOOLEAN, classified \in BOOLEAN, explained \in BOOLEAN :
        IF ~filled
        THEN notice' = "warning" /\ called' = called
        ELSE IF ~classified
        THEN notice' = "exception" /\ called' = Append(called, "classify_product")
        ELSE /\ called' = called \o <<"classify_product", "explain_classification">>
             /\ notice' = IF explained THEN "success" ELSE "exception"
    /\ page' = "main"
    /\ UNCHANGED <<APP_USERNAME, APP_PASSWORD, logged_in, submitted>>
    /\ UNCHANGED normVars
    /\ UNCHANGED apiVars

\* tab_bulk, "Generate customs codes for all records" pressed on an uploaded
\* sheet with rows: add_tullkod_column on a copy; an exception ends the run
GenerateBulk ==
    /\ logged_in = "true"
    /\ page = "main"
    /\ Len(called) + 1 <= MaxCalls
    /\ \E completed \in BOOLEAN :
        notice' = IF completed THEN "success" ELSE "exception"
    /\ called' = Append(called, "add_tullkod_column")
    /\ page' = "main"
    /\ UNCHANGED <<APP_USERNAME, APP_PASSWORD, logged_in, submitted>>
    /\ UNCHANGED normVars
    /\ UNCHANGED apiVars

NextApp == LoginPage \/ LoginSubmit \/ MainPage \/ GenerateCode \/ GenerateBulk

SpecApp == InitApp /\ [][NextApp]_vars

(***************************************************************************)
(* Vocabulary of the claims, stated without the operators of the model.    *)
(***************************************************************************)
DecimalDigits == {"0", "1", "2", "3", "4", "5", "6", "7", "8", "9", "U+0663"}

OnlyDigits(s) == \A k \in 1..Len(s) : s[k] \in DecimalDigits

IsDecimalDigit(c) == c \in DecimalDigits

\* all digits of s, in their original order
DigitsOf(s) == SelectSeq(s, IsDecimalDigit)

\* positions i..i+9 of s are a run of exactly 10 digits: the neighbour on each
\* side is a non-digit character or the start/end of s
ExactRunAt(s, i) ==
    /\ i >= 1 /\ i + 9 <= Len(s)
    /\ \A j \in i..(i + 9) : s[j] \in DecimalDigits
    /\ (i = 1 \/ s[i - 1] \notin DecimalDigits)
    /\ (i + 9 = Len(s) \/ s[i + 10] \notin DecimalDigits)

HasExactRun(s) == \E i \in 1..Len(s) : ExactRunAt(s, i)

Returned == pc \in {"normalized", "renormalized"}

\* C1: normalize_code returns for every input, None and "" included, and the
\* result is the sentinel or a non-empty string of decimal digits of length
\* at most 12.
C1_ResultShape ==
    Returned =>
        \/ result = UNKNOWN
        \/ /\ Len(result) \in 1..12
           /\ OnlyDigits(result)

C1_Witness ==
    /\ pc = "normalized"
    /\ text.some
    /\ result # UNKNOWN
    /\ Len(result) = 12
    /\ text.val # result

\* C2 as stated: every result of normalising a service response that is not
\* the sentinel is digits only and has a length in {2, 4, 6, 8, 10}.
C2_Original ==
    (Returned /\ text.some /\ result # UNKNOWN) =>
        /\ OnlyDigits(result)
        /\ Len(result) \in {2, 4, 6, 8, 10}

\* C2 as amended: every result of normalising a service response that is not
\* the sentinel is digits only, and its length is in {2, 4, 6, 8, 10} or, when
\* the result is the whole digit-only candidate of the response (best effort),
\* in {1, 3, 5, 7, 9, 11, 12}.
C2_Amended ==
    (Returned /\ text.some /\ result # UNKNOWN) =>
        /\ OnlyDigits(result)
        /\ \/ Len(result) \in {2, 4, 6, 8, 10}
           \/ /\ Len(result) \in {1, 3, 5, 7, 9, 11, 12}
              /\ result = DigitsOf(text.val)

C2_Witness ==
    /\ pc = "normalized"
    /\ text.some
    /\ Len(result) = 11
    /\ OnlyDigits(result)

\* C3: idempotence, normalize_code(normalize_code(x)) = normalize_code(x) for
\* every input x; the sentinel and the best-effort results of odd length or
\* length 12 re-normalise to themselves.
C3_Idempotent == pc = "renormalized" => again = result

C3_Witness ==
    /\ pc = "renormalized"
    /\ Len(result) \in {1, 3, 5, 7, 9, 11, 12}
    /\ OnlyDigits(result)
    /\ text.val # result
    /\ again = result

\* C5: when the text holds a run of exactly 10 digits whose neighbours are
\* non-digit characters (letter, underscore, punctuation, whitespace) or the
\* ends of the text, and the digit-only candidate's length is not in
\* {2, 4, 6, 8, 10}, the result is such a run of the text.
C5_RunReturned ==
    (/\ Returned
     /\ text.some
     /\ HasExactRun(text.val)
     /\ Len(DigitsOf(text.val)) \notin {2, 4, 6, 8, 10}) =>
        \E i \in 1..Len(text.val) :
            /\ ExactRunAt(text.val, i)
            /\ result = SubSeq(text.val, i, i + 9)

\* C6: if removing all non-digit characters leaves a string of length 2, 4,
\* 6, 8 or 10, the result is exactly that string: all digits of the input in
\* their original order, whatever stood between them.
C6_AcceptedLengthPassthrough ==
    (/\ Returned
     /\ text.some
     /\ Len(DigitsOf(text.val)) \in {2, 4, 6, 8, 10}) =>
        result = DigitsOf(text.val)

C6_Witness ==
    /\ pc = "normalized"
    /\ text.some
    /\ Len(DigitsOf(text.val)) = 8
    /\ Len(text.val) = 10
    /\ ~(text.val[1] \in DecimalDigits)
    /\ result = DigitsOf(text.val)

\* C7: an input without any digit character (None, "", whitespace only, pure
\* prose) gives the sentinel.
C7_NoDigitsGivesSentinel ==
    (Returned /\ (~text.some \/ DigitsOf(text.val) = <<>>)) => result = UNKNOWN

C7_Witness ==
    /\ pc = "normalized"
    /\ text.some
    /\ Len(text.val) = 3
    /\ DigitsOf(text.val) = <<>>
    /\ text.val[1] = "a"
    /\ result = UNKNOWN

\* C8: when the digit-only candidate's length is outside {2, 4, 6, 8, 10} and
\* the text holds no bounded run of exactly 10 digits, the result is the
\* candidate when its length is between 1 and 12 and the sentinel when it is
\* 13 or more.
C8_Fallback ==
    (/\ Returned
     /\ text.some
     /\ Len(DigitsOf(text.val)) \notin {2, 4, 6, 8, 10}
     /\ ~HasExactRun(text.val)) =>
        /\ Len(DigitsOf(text.val)) \in 1..12 => result = DigitsOf(text.val)
        /\ Len(DigitsOf(text.val)) >= 13 => result = UNKNOWN

C8_Witness ==
    /\ pc = "normalized"
    /\ text.some
    /\ Len(text.val) >= 13
    /\ OnlyDigits(text.val)
    /\ result = UNKNOWN

(***************************************************************************)
(* Claims about the public API, checked under SpecApi.                     *)
(***************************************************************************)
InBatch == call.fn = "add_tullkod_column"

\* the value a payload carries after a label; <<"absent">> without the label
PayloadValue(payload, label) ==
    LET at == {k \in 1..Len(payload) : payload[k].label = label}
    IN IF at = {} THEN <<"absent">> ELSE payload[CHOOSE k \in at : TRUE].value

HasLabel(payload, label) == \E k \in 1..Len(payload) : payload[k].label = label

FieldLabels ==
    [name |-> "\n\nProduktnamn: ",
     desc |-> "\nProduktbeskrivning: ",
     comp |-> "\nProduktsammansattning / substanser: "]

\* the field of a row is absent: a missing column, or a cell that is NaN,
\* None or the empty string
AbsentInRow(table, row, col) ==
    \/ col \notin table.cols
    \/ row[col].kind \in {"nan", "none"}
    \/ row[col].val = <<>>

ColOfField(c, f) ==
    IF f = "name" THEN c.name_col ELSE IF f = "desc" THEN c.desc_col ELSE c.comp_col

\* C4: when the service call of some row of add_tullkod_column fails, the
\* failure does not leave the batch as a crash: the batch finishes, every
\* other row's cell holds that row's normalised code and the failing row's
\* cell holds the sentinel or an error marker.
C4_BatchFailureIsolated ==
    InBatch =>
        /\ apc # "raised"
        /\ apc = "returned" =>
              \A k \in 1..Len(df.rows) :
                  IF log[k].response.some
                  THEN df.rows[k][call.output_col] = Str(normalize_code(log[k].response))
                  ELSE \/ df.rows[k][call.output_col] = Str(UNKNOWN)
                       \/ df.rows[k][call.output_col].kind = "error"

\* C9: in classify_product, in explain_classification and for every row of
\* add_tullkod_column, an absent product field (None, a missing or empty
\* cell, a missing column) puts the empty string after the field's label in
\* the payload, the label is present, and nothing but a failure of the
\* service raises.
C9_MissingFieldsEmpty ==
    /\ \A k \in 1..Len(log) : \A f \in {"name", "desc", "comp"} :
          HasLabel(log[k].payload, FieldLabels[f])
    /\ apc = "raised" => ~log[Len(log)].response.some
    /\ call.fn \in {"classify_product", "explain_classification"} =>
          \A f \in {"name", "desc", "comp"} :
              (~call[f].some \/ call[f].val = <<>>) =>
                  PayloadValue(log[1].payload, FieldLabels[f]) = <<>>
    /\ InBatch =>
          \A k \in 1..Len(log) : \A f \in {"name", "desc", "comp"} :
              AbsentInRow(call.df, call.df.rows[k], ColOfField(call, f)) =>
                  PayloadValue(log[k].payload, FieldLabels[f]) = <<>>

\* C10: when every call succeeds, add_tullkod_column has sent one request per
\* row and returns the rows in their order with every input column unchanged
\* plus the column output_col, the cell of row k being normalize_code of the
\* response to the request built from row k's own three fields.
C10_BatchShape ==
    (InBatch /\ apc = "returned") =>
        /\ Len(log) = Len(call.df.rows)
        /\ Len(df.rows) = Len(call.df.rows)
        /\ df.cols = call.df.cols \cup {call.output_col}
        /\ \A k \in 1..Len(call.df.rows) :
              /\ \A c \in call.df.cols : df.rows[k][c] = call.df.rows[k][c]
              /\ log[k].payload = RowRequest(call, call.df, call.df.rows[k]).payload
              /\ log[k].response.some
              /\ df.rows[k][call.output_col] = Str(normalize_code(log[k].response))

\* the text an optional product field stands for: "" when it is None
TextOfField(x) == IF x.some THEN x.val ELSE <<>>

\* C11: explain_classification sends exactly one request, to the explanation
\* chain, whose payload carries the given code verbatim (digits or the
\* sentinel) and the three product fields, and it returns the service's
\* response text unmodified, not normalised.
C11_ExplainPassthrough ==
    call.fn = "explain_classification" =>
        /\ Len(log) = 1
        /\ log[1].chain = "explanation_chain"
        /\ PayloadValue(log[1].payload, "\n\nVald tullkod: ") = call.tullkod
        /\ \A f \in {"name", "desc", "comp"} :
              PayloadValue(log[1].payload, FieldLabels[f]) = TextOfField(call[f])
        /\ apc = "returned" => ret = log[1].response.val

C11_Witness ==
    /\ call.fn = "explain_classification"
    /\ apc = "returned"
    /\ call.tullkod = <<"U", "N", "K", "N", "O", "W", "N">>
    /\ call.name = Some(<<"a">>)
    /\ ret = log[1].response.val
    /\ ret = <<"3", "0", "0", "4", ".", "3", "0">>

(***************************************************************************)
(* Claim about the web session, checked under SpecApp.                     *)
(***************************************************************************)
\* a login submission whose username and password equal the configured ones
MatchingSubmission(sub) ==
    /\ APP_USERNAME.set /\ APP_USERNAME.val = sub.user
    /\ APP_PASSWORD.set /\ APP_PASSWORD.val = sub.pwd

\* C12: a session starts not logged in, and as long as no login submission
\* has entered the configured username and password (none can while they are
\* not configured) logged_in is false, the main content is unreached and no
\* function of tullkod_model has been called.
C12_LoginGate ==
    /\ logged_in = "absent" => (page = "none" /\ called = <<>> /\ submitted = {})
    /\ (~\E sub \in submitted : MatchingSubmission(sub)) =>
          /\ logged_in # "true"
          /\ page # "main"
          /\ called = <<>>

C12_Witness ==
    /\ logged_in = "true"
    /\ page = "main"
    /\ Len(called) >= 2
    /\ \E sub \in submitted : MatchingSubmission(sub)
    /\ \E sub \in submitted : ~MatchingSubmission(sub)

====
